---- MODULE Spec2Model ----
(***************************************************************************)
(* A model of youtube_exporter: the identifier parser, the channel         *)
(* resolver, the uploads enumerator, the detail fetcher, the transcript    *)
(* fetcher, the error classifier and run_export, which sequences them and  *)
(* writes the CSV file and the spreadsheet rows.                           *)
(*                                                                         *)
(* Text is a sequence of one-character strings.  Every upstream call       *)
(* (googleapiclient's execute()) ends in one of: a response, an HttpError, *)
(* or another exception; a response may lack a key the code subscripts.    *)
(***************************************************************************)
EXTENDS Integers, Sequences, FiniteSets, TLC

\* ------------------------------------------------------------------ bounds

\* max_videos ranges over -1 .. MaxVideos.
MaxVideos == 2
\* The upstream holds the video ids 1 .. NumVids.
NumVids == 2
\* A playlist page carries at most MaxPageLen items.
MaxPageLen == 2
\* get_video_details is given up to MaxChunks full chunks of ids, and one more.
MaxChunks == 2
\* A caption listing carries at most MaxTracks tracks.
MaxTracks == 3
\* An upstream run of id characters is at most MinIdLen + MaxExtra long.
MaxExtra == 1
\* The upstream's playlist has at most MaxPages pages.
MaxPages == 3

\* ------------------------------------------------------- program constants

\* {20,} in the two channel-id patterns.
MinIdLen == 20
\* maxResults=min(50, remaining).
PageSize == 50
\* chunked(video_ids, 50).
ChunkSize == 50

\* ------------------------------------------------------------------- text

Lower == {"a", "b", "c", "d", "e", "f", "g", "h", "i", "j", "k", "l", "m", "n",
          "o", "p", "q", "r", "s", "t", "u", "v", "w", "x", "y", "z"}
Upper == {"A", "B", "C", "D", "E", "F", "G", "H", "I", "J", "K", "L", "M", "N",
          "O", "P", "Q", "R", "S", "T", "U", "V", "W", "X", "Y", "Z"}
Digit == {"0", "1", "2", "3", "4", "5", "6", "7", "8", "9"}
\* [a-zA-Z0-9_-]
IdChars == Lower \cup Upper \cup Digit \cup {"_", "-"}
\* [A-Za-z0-9_.-]
HandleChars == IdChars \cup {"."}
\* what str.strip() removes
Whitespace == {" ", "\t", "\n"}

RECURSIVE LStrip(_)
LStrip(s) ==
    IF s # <<>> /\ Head(s) \in Whitespace THEN LStrip(Tail(s)) ELSE s

RECURSIVE RStrip(_)
RStrip(s) ==
    IF s # <<>> /\ s[Len(s)] \in Whitespace
    THEN RStrip(SubSeq(s, 1, Len(s) - 1))
    ELSE s

\* str.strip()
Strip(s) == RStrip(LStrip(s))

\* s.startswith(lit) at position i (1-based)
LitAt(s, i, lit) ==
    /\ i + Len(lit) - 1 <= Len(s)
    /\ SubSeq(s, i, i + Len(lit) - 1) = lit

\* The length of the longest run of characters of cls that starts at i:
\* what a greedy [cls]* consumes there.
RECURSIVE RunLen(_, _, _)
RunLen(s, i, cls) ==
    IF i <= Len(s) /\ s[i] \in cls THEN 1 + RunLen(s, i + 1, cls) ELSE 0

NoMatch == [found |-> FALSE, group |-> <<>>]

\* Whether  prefix keep [cls]{min,}  matches at position i, for one of the
\* alternative prefixes.
MatchAt(s, i, prefixes, keep, cls, min) ==
    \E p \in prefixes :
        /\ LitAt(s, i, p \o keep)
        /\ RunLen(s, i + Len(p) + Len(keep), cls) >= min

\* The group  (keep [cls]{min,})  of the match at i: the quantifier is greedy
\* and nothing follows it, so the group takes the whole run.
GroupAt(s, i, prefixes, keep, cls) ==
    LET p == CHOOSE q \in prefixes : LitAt(s, i, q \o keep)
        start == i + Len(p)
        n == RunLen(s, start + Len(keep), cls)
    IN  SubSeq(s, start, start + Len(keep) + n - 1)

\* re.search: the leftmost position at which the pattern matches.
RECURSIVE SearchFrom(_, _, _, _, _, _)
SearchFrom(s, i, prefixes, keep, cls, min) ==
    IF i > Len(s) THEN NoMatch
    ELSE IF MatchAt(s, i, prefixes, keep, cls, min)
         THEN [found |-> TRUE, group |-> GroupAt(s, i, prefixes, keep, cls)]
         ELSE SearchFrom(s, i + 1, prefixes, keep, cls, min)

ReSearch(s, prefixes, keep, cls, min) == SearchFrom(s, 1, prefixes, keep, cls, min)

YoutubeCom == <<"y", "o", "u", "t", "u", "b", "e", ".", "c", "o", "m">>
YoutuBe == <<"y", "o", "u", "t", "u", ".", "b", "e">>
UC == <<"U", "C">>
At == <<"@">>
Slash == <<"/">>
ChannelSeg == <<"c", "h", "a", "n", "n", "e", "l", "/">>
UserSeg == <<"u", "s", "e", "r", "/">>
CSeg == <<"c", "/">>

\* IsChannelId with the quantifier off by one: {21,}.
IsChannelIdOffByOne(s) ==
    /\ LitAt(s, 1, UC)
    /\ RunLen(s, 3, IdChars) > MinIdLen
    /\ RunLen(s, 3, IdChars) = Len(s) - 2

\* re.match(r"^UC[a-zA-Z0-9_-]{20,}$", s), s already stripped
IsChannelId(s) ==
    /\ LitAt(s, 1, UC)
    /\ RunLen(s, 3, IdChars) >= MinIdLen
    /\ RunLen(s, 3, IdChars) = Len(s) - 2

\* r"(?:youtube\.com|youtu\.be)/(@[A-Za-z0-9_.-]+)"
SearchHandleUrl(s) ==
    ReSearch(s, {YoutubeCom \o Slash, YoutuBe \o Slash}, At, HandleChars, 1)

\* r"youtube\.com/channel/(UC[a-zA-Z0-9_-]{20,})"
SearchChannelUrl(s) ==
    ReSearch(s, {YoutubeCom \o Slash \o ChannelSeg}, UC, IdChars, MinIdLen)

\* r"youtube\.com/user/([A-Za-z0-9_.-]+)"
SearchUserUrl(s) ==
    ReSearch(s, {YoutubeCom \o Slash \o UserSeg}, <<>>, HandleChars, 1)

\* r"youtube\.com/c/([A-Za-z0-9_.-]+)"
SearchCustomUrl(s) ==
    ReSearch(s, {YoutubeCom \o Slash \o CSeg}, <<>>, HandleChars, 1)

\* parse_channel_identifier with the /c/ pattern tried before the /user/ one.
ParseCustomBeforeUser(channel_input) ==
    LET s == Strip(channel_input) IN
    IF s # <<>> /\ Head(s) = "@" THEN [key |-> "forHandle", value |-> s]
    ELSE IF IsChannelId(s) THEN [key |-> "id", value |-> s]
    ELSE IF SearchHandleUrl(s).found
         THEN [key |-> "forHandle", value |-> SearchHandleUrl(s).group]
    ELSE IF SearchChannelUrl(s).found
         THEN [key |-> "id", value |-> SearchChannelUrl(s).group]
    ELSE IF SearchCustomUrl(s).found
         THEN [key |-> "customUrl", value |-> SearchCustomUrl(s).group]
    ELSE IF SearchUserUrl(s).found
         THEN [key |-> "forUsername", value |-> SearchUserUrl(s).group]
    ELSE [key |-> "forUsername", value |-> s]

\* The dict with one key that parse_channel_identifier returns.
Ident(key, value) == [key |-> key, value |-> value]

parse_channel_identifier(channel_input) ==
    LET s == Strip(channel_input) IN
    IF s # <<>> /\ Head(s) = "@" THEN Ident("forHandle", s)
    ELSE IF IsChannelId(s) THEN Ident("id", s)
    ELSE IF SearchHandleUrl(s).found
         THEN Ident("forHandle", SearchHandleUrl(s).group)
    ELSE IF SearchChannelUrl(s).found
         THEN Ident("id", SearchChannelUrl(s).group)
    ELSE IF SearchUserUrl(s).found
         THEN Ident("forUsername", SearchUserUrl(s).group)
    ELSE IF SearchCustomUrl(s).found
         THEN Ident("customUrl", SearchCustomUrl(s).group)
    ELSE Ident("forUsername", s)

\* ------------------------------------------------------------- exceptions

\* An exception in flight: its class, and what its message is built from.
Exception(kind, message, context, status, reason) ==
    [kind |-> kind, message |-> message, context |-> context,
     status |-> status, reason |-> reason]

NoExc == Exception("none", "", "", 0, "")

\* errors.py: FriendlyError and its three subclasses.
ExportErrorKinds == {"Generic", "QuotaExceeded", "SheetNotFound", "PermissionDenied"}

\* raise FriendlyError(message)
FriendlyError(message) == Exception("Generic", message, "", 0, "")

\* it[...] on a response that lacks the key, .get on a value that is no dict
KeyError == Exception("KeyError", "", "", 0, "")

\* execute() raising something that is no HttpError (transport, auth refresh)
TransportError == Exception("TransportError", "", "", 0, "")

\* ---------------------------------------------------------- HTTP failures

\* The body of an HttpError, by how far _http_error_reason gets into it:
\*   json      the body parses as JSON
\*   top       "dict" when the parsed value is a dict
\*   error     the value under "error": "absent", "dict", or "other" (null, text)
\*   errors    the value under "errors": "absent", "null", "empty" ([]),
\*             "list" (non-empty list), "other" (a non-empty non-list)
\*   first     errors[0]: "dict" or "other"
\*   reason    the value under "reason": "" stands for absent, null or ""
Payload(json, top, error, errors, first, reason) ==
    [json |-> json, top |-> top, error |-> error, errors |-> errors,
     first |-> first, reason |-> reason]

Reasons == {"", "quotaExceeded", "rateLimitExceeded", "forbidden"}

WellFormedPayloads == {Payload(TRUE, "dict", "dict", "list", "dict", r) : r \in Reasons}

MalformedPayloads ==
    {Payload(FALSE, "other", "absent", "absent", "other", "quotaExceeded"),
     Payload(TRUE, "other", "absent", "absent", "other", "quotaExceeded"),
     Payload(TRUE, "dict", "absent", "absent", "other", "quotaExceeded"),
     Payload(TRUE, "dict", "other", "absent", "other", "quotaExceeded"),
     Payload(TRUE, "dict", "dict", "absent", "other", "quotaExceeded"),
     Payload(TRUE, "dict", "dict", "null", "other", "quotaExceeded"),
     Payload(TRUE, "dict", "dict", "empty", "other", "quotaExceeded"),
     Payload(TRUE, "dict", "dict", "other", "dict", "quotaExceeded"),
     Payload(TRUE, "dict", "dict", "list", "other", "quotaExceeded")}

Payloads == WellFormedPayloads \cup MalformedPayloads

Statuses == {403, 404, 500}

HttpError(payload, status) == [payload |-> payload, status |-> status]

HttpErrors == {HttpError(p, s) : p \in Payloads, s \in Statuses}

NoHttpError == HttpError(Payload(FALSE, "other", "absent", "absent", "other", ""), 0)

\* The try block of _http_error_reason: "raised" when a statement of it
\* raises, else the value it returns, or "fallthrough" when the if is skipped.
HttpErrorReasonTry(err) ==
    LET p == err.payload IN
    IF ~p.json THEN "raised"                         \* json.loads
    ELSE IF p.top # "dict" THEN "raised"             \* data.get
    ELSE IF p.error = "other" THEN "raised"          \* (...).get("errors", [])
    ELSE IF p.error = "absent" THEN "fallthrough"    \* {}.get("errors", []) = []
    ELSE IF p.errors \in {"absent", "null", "empty"} THEN "fallthrough"
    ELSE IF p.errors # "list" THEN "fallthrough"     \* not isinstance(errors, list)
    ELSE IF p.first # "dict" THEN "raised"           \* errors[0].get
    ELSE p.reason                                    \* str(reason or "")

\* _http_error_reason reading a reason wherever the body holds one, without
\* the checks on the way to it.
HttpErrorReasonUnchecked(err) == err.payload.reason

_http_error_reason(err) ==
    LET r == HttpErrorReasonTry(err) IN
    IF r = "raised" THEN ""            \* except Exception: return ""
    ELSE IF r = "fallthrough" THEN ""  \* the final return ""
    ELSE r

QuotaMessage == "YouTube API quota exceeded. Reduce max videos, wait for quota reset, or use a new Google Cloud project and API key."

\* The exception _raise_friendly_http_error raises; every path of it raises.
_raise_friendly_http_error(err, context) ==
    LET reason == _http_error_reason(err)
        status == err.status
    IN  IF reason = "quotaExceeded"
        THEN Exception("QuotaExceeded", QuotaMessage, "", 0, "")
        ELSE Exception("Generic", "API error while", context, status,
                       IF reason = "" THEN "unknown" ELSE reason)

\* --------------------------------------------------------- upstream calls

\* How one execute() ends: a response with n items (wf: every key the code
\* subscripts is there), an HttpError, or another exception.
Response(n, wf) == [t |-> "ok", n |-> n, wf |-> wf, err |-> NoHttpError]
HttpFailure(e) == [t |-> "http", n |-> 0, wf |-> TRUE, err |-> e]
OtherFailure == [t |-> "exc", n |-> 0, wf |-> TRUE, err |-> NoHttpError]

\* The HttpErrors the pipeline's upstream raises: one per way the classifier
\* can go (SpecClassify draws from all of HttpErrors).
PipelineHttpErrors ==
    {HttpError(Payload(TRUE, "dict", "dict", "list", "dict", "quotaExceeded"), 403),
     HttpError(Payload(TRUE, "dict", "dict", "list", "dict", "forbidden"), 403),
     HttpError(Payload(FALSE, "other", "absent", "absent", "other", "quotaExceeded"), 500)}

Failures == {HttpFailure(e) : e \in PipelineHttpErrors} \cup {OtherFailure}

\* channels.list and search.list with maxResults=1: no item or one.
LookupOutcomes == {Response(n, wf) : n \in {0, 1}, wf \in BOOLEAN} \cup Failures

\* One entry of the log of upstream calls: the endpoint, the size, id or ids
\* asked for (0: none), the page token sent (0: None), how the call ended ("ok",
\* "http", "exc") and the number of items of its response.
Call(api, n, tok, ended, got) ==
    [api |-> api, n |-> n, tok |-> tok, ended |-> ended, got |-> got]

\* What a function of the program did: the calls it issued, the value it
\* returned (when exc is NoExc), the exception it raised, and the HttpError
\* it handed to the classifier.
Returned(calls, value) ==
    [calls |-> calls, value |-> value, exc |-> NoExc, caught |-> NoHttpError]
Raised(calls, exc) ==
    [calls |-> calls, value |-> <<>>, exc |-> exc, caught |-> NoHttpError]

\* except HttpError as e: _raise_friendly_http_error(e, context); any other
\* exception leaves the function as it is.
FailedCall(calls, o, context) ==
    IF o.t = "http"
    THEN [calls |-> calls, value |-> <<>>,
          exc |-> _raise_friendly_http_error(o.err, context), caught |-> o.err]
    ELSE Raised(calls, TransportError)

\* The ids the upstream answers with.
LookupId == <<"U", "C", "l">>
SearchId == <<"U", "C", "s">>
UploadsId == <<"U", "U", "l">>

ResolveContext == "resolving channel id"

\* resolve_channel_id without "if items: return items[0]["id"]": the
\* username lookup is always followed by the search.
ResolveAlwaysSearches(ident, o1, o2) ==
    LET lookup(api) == <<Call(api, 0, 0, o1.t, o1.n)>>
        Searched(before, o, notFound) ==
            LET c == before \o <<Call("search.list", 1, 0, o.t, o.n)>> IN
            IF o.t # "ok" THEN FailedCall(c, o, ResolveContext)
            ELSE IF o.n = 0 THEN Raised(c, FriendlyError(notFound))
            ELSE IF ~o.wf THEN Raised(c, KeyError)
            ELSE Returned(c, SearchId)
    IN
    IF ident.key = "id" THEN Returned(<<>>, ident.value)
    ELSE IF ident.key = "forHandle" THEN
        LET c == lookup("channels.list:forHandle") IN
        IF o1.t # "ok" THEN FailedCall(c, o1, ResolveContext)
        ELSE IF o1.n = 0 THEN Raised(c, FriendlyError("Channel not found for handle"))
        ELSE IF ~o1.wf THEN Raised(c, KeyError)
        ELSE Returned(c, LookupId)
    ELSE IF ident.key = "forUsername" THEN
        LET c == lookup("channels.list:forUsername") IN
        IF o1.t # "ok" THEN FailedCall(c, o1, ResolveContext)
        ELSE Searched(c, o2, "Channel not found")
    ELSE Searched(<<>>, o1, "Channel not found for custom url")

\* o1 is how the first call ends, o2 how the second (if issued) ends.
resolve_channel_id(ident, o1, o2) ==
    LET lookup(api) == <<Call(api, 0, 0, o1.t, o1.n)>>
        \* youtube.search().list(part="snippet", q=q, type="channel", maxResults=1)
        Searched(before, o, notFound) ==
            LET c == before \o <<Call("search.list", 1, 0, o.t, o.n)>> IN
            IF o.t # "ok" THEN FailedCall(c, o, ResolveContext)
            ELSE IF o.n = 0 THEN Raised(c, FriendlyError(notFound))
            ELSE IF ~o.wf THEN Raised(c, KeyError)
            ELSE Returned(c, SearchId)
    IN
    IF ident.key = "id" THEN Returned(<<>>, ident.value)
    ELSE IF ident.key = "forHandle" THEN
        LET c == lookup("channels.list:forHandle") IN
        IF o1.t # "ok" THEN FailedCall(c, o1, ResolveContext)
        ELSE IF o1.n = 0 THEN Raised(c, FriendlyError("Channel not found for handle"))
        ELSE IF ~o1.wf THEN Raised(c, KeyError)
        ELSE Returned(c, LookupId)
    ELSE IF ident.key = "forUsername" THEN
        LET c == lookup("channels.list:forUsername") IN
        IF o1.t # "ok" THEN FailedCall(c, o1, ResolveContext)
        ELSE IF o1.n > 0
             THEN IF ~o1.wf THEN Raised(c, KeyError) ELSE Returned(c, LookupId)
        ELSE Searched(c, o2, "Channel not found")
    ELSE IF ident.key = "customUrl" THEN
        Searched(<<>>, o1, "Channel not found for custom url")
    ELSE Raised(<<>>, FriendlyError("Unsupported channel identifier"))

UploadsContext == "fetching uploads playlist id"

get_uploads_playlist_id(channel_id, o) ==
    LET c == <<Call("channels.list:id", 0, 0, o.t, o.n)>> IN
    IF o.t # "ok" THEN FailedCall(c, o, UploadsContext)
    ELSE IF o.n = 0 THEN Raised(c, FriendlyError("Channel contentDetails not found"))
    ELSE IF ~o.wf THEN Raised(c, KeyError)
    ELSE Returned(c, UploadsId)

\* ------------------------------------------------------------------ state

VARIABLES
    cfg,            \* the ExportConfig run_export was given
    pc,             \* where run_export (or the function under test) stands
    ident,          \* parse_channel_identifier's result
    channel_id,     \* resolve_channel_id's result
    uploads,        \* get_uploads_playlist_id's result
    video_ids,      \* list_upload_video_ids: the accumulator, then the result
    page_token,     \* list_upload_video_ids: the continuation token (0: None)
    served,         \* the items of the playlist pages served so far, in order
    base_rows,      \* get_video_details: the accumulator, then the result
    chunk_start,    \* get_video_details: index of the next chunk's first id
    existing_urls,  \* read_existing_video_urls's result
    final_rows,     \* run_export's accumulator and result
    row_idx,        \* run_export: index of the next base row
    calls,          \* the upstream calls issued so far, in order
    exc,            \* the exception the run ended with (NoExc: none)
    caught,         \* the HttpError handed to the classifier (NoHttpError: none)
    context,        \* the context string handed to the classifier with it
    csv,            \* the CSV file: whether written, and its rows
    sheet,          \* the worksheet: whether appended to, and the rows
    preferred,      \* get_transcript_official: the prefer_langs argument
    tracks          \* get_transcript_official: the caption listing of the video

vars == <<cfg, pc, ident, channel_id, uploads, video_ids, page_token, served,
          base_rows, chunk_start, existing_urls, final_rows, row_idx, calls,
          exc, caught, context, csv, sheet, preferred, tracks>>

Min(a, b) == IF a <= b THEN a ELSE b
Max(a, b) == IF a >= b THEN a ELSE b

Config(channel_input, max_videos, out_csv, sheets, oauth, skip_existing) ==
    [channel_input |-> channel_input, max_videos |-> max_videos,
     out_csv |-> out_csv, sheets |-> sheets, oauth |-> oauth,
     skip_existing |-> skip_existing]

MaxVideosRange == (0 - 1) .. MaxVideos

NoFile == [written |-> FALSE, rows |-> <<>>]

\* The variables run_export and its functions fill in, before any has run.
Fresh ==
    /\ ident = Ident("", <<>>)
    /\ channel_id = <<>>
    /\ video_ids = <<>>
    /\ page_token = 0
    /\ served = <<>>
    /\ base_rows = <<>>
    /\ chunk_start = 1
    /\ existing_urls = {}
    /\ final_rows = <<>>
    /\ row_idx = 1
    /\ calls = <<>>
    /\ exc = NoExc
    /\ csv = NoFile
    /\ sheet = NoFile

\* run_export calls get_transcript_official(youtube_oauth, video_id): no
\* prefer_langs; the caption listing is the upstream's answer of the moment.
NoTranscriptArguments ==
    /\ preferred = [given |-> FALSE, langs |-> <<>>]
    /\ tracks = [t |-> "ok", items |-> <<>>]

\* What a function that returned or raised leaves behind: the calls it
\* issued, and when it raised the exception, which ends the run.
Outcome(r, next) ==
    /\ calls' = calls \o r.calls
    /\ exc' = r.exc
    /\ caught' = r.caught
    /\ pc' = IF r.exc = NoExc THEN next ELSE "raised"

\* run_export, lines 36-51: the clients are built and the input is parsed.
Start ==
    /\ pc = "start"
    /\ ident' = parse_channel_identifier(cfg.channel_input)
    /\ pc' = "resolve"
    /\ UNCHANGED <<cfg, preferred, tracks, channel_id, uploads, video_ids, page_token, served,
                   base_rows, chunk_start, existing_urls, final_rows, row_idx,
                   calls, exc, caught, context, csv, sheet>>

\* run_export, line 52.
ResolveChannelId ==
    /\ pc = "resolve"
    /\ \E o1 \in LookupOutcomes, o2 \in LookupOutcomes :
        LET r == resolve_channel_id(ident, o1, o2) IN
        /\ Outcome(r, "uploads")
        /\ channel_id' = r.value
        /\ context' = IF r.caught = NoHttpError THEN context ELSE ResolveContext
    /\ UNCHANGED <<cfg, preferred, tracks, ident, uploads, video_ids, page_token, served,
                   base_rows, chunk_start, existing_urls, final_rows, row_idx,
                   csv, sheet>>

\* run_export, line 55.
GetUploadsPlaylistId ==
    /\ pc = "uploads"
    /\ \E o \in LookupOutcomes :
        LET r == get_uploads_playlist_id(channel_id, o) IN
        /\ Outcome(r, "list")
        /\ uploads' = r.value
        /\ context' = IF r.caught = NoHttpError THEN context ELSE UploadsContext
    /\ UNCHANGED <<cfg, preferred, tracks, ident, channel_id, video_ids, page_token, served,
                   base_rows, chunk_start, existing_urls, final_rows, row_idx,
                   csv, sheet>>

\* ----------------------------------------------------- uploads enumerator

\* The video ids the upstream holds.
Vids == 1 .. NumVids

\* A playlist page: its items' video ids, the index of the first item that
\* lacks contentDetails.videoId (0: none does), and whether it carries a
\* nextPageToken.
Page(items, bad, more) ==
    [t |-> "ok", items |-> items, bad |-> bad, more |-> more, err |-> NoHttpError]
PageHttpFailure(e) ==
    [t |-> "http", items |-> <<>>, bad |-> 0, more |-> FALSE, err |-> e]
PageOtherFailure ==
    [t |-> "exc", items |-> <<>>, bad |-> 0, more |-> FALSE, err |-> NoHttpError]

PageFailures == {PageHttpFailure(e) : e \in PipelineHttpErrors} \cup {PageOtherFailure}

SeqsUpTo(S, n) == UNION {[1 .. k -> S] : k \in 0 .. n}

\* Every page of at most MaxPageLen items.
AllPages ==
    {Page(items, bad, more) :
        items \in SeqsUpTo(Vids, MaxPageLen), bad \in {0, 1}, more \in BOOLEAN}

\* The pages run_export's upstream serves: well-formed, and empty, short,
\* repeating or full.
PipelinePages ==
    {Page(items, 0, more) :
        items \in {<<>>, <<1>>, <<2, 1>>, <<1, 1>>}, more \in BOOLEAN}
    \cup {Page(<<1>>, 1, FALSE)}

ListContext == "listing channel uploads"

\* The playlistItems.list calls issued so far.
PageCalls(log) == Len(SelectSeq(log, LAMBDA c : c.api = "playlistItems.list"))

\* ListPass without the check inside the for loop (if len(video_ids) >=
\* max_videos: return video_ids): every item of the page is appended.
ListPassNoCap(ids, tok, max_videos, o, fresh) ==
    LET remaining == max_videos - Len(ids)
        request == <<Call("playlistItems.list", Min(PageSize, remaining), tok, o.t,
                         Len(o.items))>>
        next == IF o.more THEN fresh ELSE 0
    IN
    IF remaining <= 0
    THEN [calls |-> <<>>, ids |-> ids, tok |-> tok, done |-> TRUE,
          exc |-> NoExc, caught |-> NoHttpError]
    ELSE IF o.t # "ok"
    THEN [calls |-> request, ids |-> ids, tok |-> tok, done |-> TRUE,
          exc |-> TransportError, caught |-> NoHttpError]
    ELSE [calls |-> request, ids |-> ids \o o.items, tok |-> next,
          done |-> (next = 0), exc |-> NoExc, caught |-> NoHttpError]

\* ListPass returning before it appends the item that reaches max_videos.
ListPassDropsLast(ids, tok, max_videos, o, fresh) ==
    LET remaining == max_videos - Len(ids)
        request == <<Call("playlistItems.list", Min(PageSize, remaining), tok, o.t,
                         Len(o.items))>>
        next == IF o.more THEN fresh ELSE 0
    IN
    IF remaining <= 0
    THEN [calls |-> <<>>, ids |-> ids, tok |-> tok, done |-> TRUE,
          exc |-> NoExc, caught |-> NoHttpError]
    ELSE IF o.t # "ok"
    THEN [calls |-> request, ids |-> ids, tok |-> tok, done |-> TRUE,
          exc |-> TransportError, caught |-> NoHttpError]
    ELSE IF Len(o.items) >= remaining
    THEN [calls |-> request, ids |-> ids \o SubSeq(o.items, 1, remaining - 1),
          tok |-> tok, done |-> TRUE, exc |-> NoExc, caught |-> NoHttpError]
    ELSE [calls |-> request, ids |-> ids \o o.items, tok |-> next,
          done |-> (next = 0), exc |-> NoExc, caught |-> NoHttpError]

\* ListPass asking for a full page every time: maxResults=50.
ListPassFullPages(ids, tok, max_videos, o, fresh) ==
    LET remaining == max_videos - Len(ids)
        request == <<Call("playlistItems.list", PageSize, tok, o.t, Len(o.items))>>
        taken == Min(Len(o.items), remaining)
        next == IF o.more THEN fresh ELSE 0
    IN
    IF remaining <= 0
    THEN [calls |-> <<>>, ids |-> ids, tok |-> tok, done |-> TRUE,
          exc |-> NoExc, caught |-> NoHttpError]
    ELSE IF o.t # "ok"
    THEN [calls |-> request, ids |-> ids, tok |-> tok, done |-> TRUE,
          exc |-> TransportError, caught |-> NoHttpError]
    ELSE IF Len(o.items) >= remaining
    THEN [calls |-> request, ids |-> ids \o SubSeq(o.items, 1, taken), tok |-> tok,
          done |-> TRUE, exc |-> NoExc, caught |-> NoHttpError]
    ELSE [calls |-> request, ids |-> ids \o o.items, tok |-> next,
          done |-> (next = 0), exc |-> NoExc, caught |-> NoHttpError]

\* ListPass leaving the loop on a page without items, token or not.
ListPassStopsOnEmptyPage(ids, tok, max_videos, o, fresh) ==
    LET remaining == max_videos - Len(ids)
        request == <<Call("playlistItems.list", Min(PageSize, remaining), tok, o.t,
                         Len(o.items))>>
        taken == Min(Len(o.items), remaining)
        next == IF o.more THEN fresh ELSE 0
    IN
    IF remaining <= 0
    THEN [calls |-> <<>>, ids |-> ids, tok |-> tok, done |-> TRUE,
          exc |-> NoExc, caught |-> NoHttpError]
    ELSE IF o.t # "ok"
    THEN [calls |-> request, ids |-> ids, tok |-> tok, done |-> TRUE,
          exc |-> TransportError, caught |-> NoHttpError]
    ELSE IF Len(o.items) >= remaining
    THEN [calls |-> request, ids |-> ids \o SubSeq(o.items, 1, taken), tok |-> tok,
          done |-> TRUE, exc |-> NoExc, caught |-> NoHttpError]
    ELSE [calls |-> request, ids |-> ids \o o.items, tok |-> next,
          done |-> (next = 0 \/ o.items = <<>>), exc |-> NoExc,
          caught |-> NoHttpError]

\* One pass of the while loop of list_upload_video_ids, lines 187-206, from
\* the accumulator ids and the token tok, the request ending as o; fresh is
\* the token the page carries when it carries one.
\*   done: the function returned;  ids, tok: the accumulator and token after.
ListPass(ids, tok, max_videos, o, fresh) ==
    LET remaining == max_videos - Len(ids)
        request == <<Call("playlistItems.list", Min(PageSize, remaining), tok, o.t,
                         Len(o.items))>>
        taken == Min(Len(o.items), remaining)
        next == IF o.more THEN fresh ELSE 0
    IN
    IF remaining <= 0                                     \* break; return video_ids
    THEN [calls |-> <<>>, ids |-> ids, tok |-> tok, done |-> TRUE,
          exc |-> NoExc, caught |-> NoHttpError]
    ELSE IF o.t = "http"
    THEN [calls |-> request, ids |-> ids, tok |-> tok, done |-> TRUE,
          exc |-> _raise_friendly_http_error(o.err, ListContext), caught |-> o.err]
    ELSE IF o.t = "exc"
    THEN [calls |-> request, ids |-> ids, tok |-> tok, done |-> TRUE,
          exc |-> TransportError, caught |-> NoHttpError]
    ELSE IF o.bad >= 1 /\ o.bad <= taken                  \* it["contentDetails"]["videoId"]
    THEN [calls |-> request, ids |-> ids, tok |-> tok, done |-> TRUE,
          exc |-> KeyError, caught |-> NoHttpError]
    ELSE IF Len(o.items) >= remaining                     \* return video_ids, in the for
    THEN [calls |-> request, ids |-> ids \o SubSeq(o.items, 1, taken), tok |-> tok,
          done |-> TRUE, exc |-> NoExc, caught |-> NoHttpError]
    ELSE [calls |-> request, ids |-> ids \o o.items, tok |-> next,
          done |-> (next = 0), exc |-> NoExc, caught |-> NoHttpError]

\* run_export, line 58: one pass of list_upload_video_ids' loop, the upstream
\* answering with a page of Pages or a failure.  The upstream's playlist ends:
\* its page number MaxPages carries no token.
ListUploadVideoIds(Pages) ==
    /\ pc = "list"
    /\ \E o \in Pages \cup PageFailures :
        LET k == PageCalls(calls) + 1
            r == ListPass(video_ids, page_token, cfg.max_videos, o, k)
        IN
        /\ o.more => k < MaxPages
        /\ calls' = calls \o r.calls
        /\ video_ids' = r.ids
        /\ page_token' = r.tok
        /\ served' = IF r.calls # <<>> /\ o.t = "ok" THEN served \o o.items ELSE served
        /\ exc' = r.exc
        /\ caught' = r.caught
        /\ context' = IF r.caught = NoHttpError THEN context ELSE ListContext
        /\ pc' = IF r.exc # NoExc THEN "raised"
                 ELSE IF r.done THEN "details" ELSE "list"
    /\ UNCHANGED <<cfg, preferred, tracks, ident, channel_id, uploads, base_rows, chunk_start,
                   existing_urls, final_rows, row_idx, csv, sheet>>

\* --------------------------------------------------------- detail fetcher

\* f"https://www.youtube.com/watch?v={vid}"
WatchUrl(vid) == [base |-> "https://www.youtube.com/watch?v=", v |-> vid]

DetailKeys == {"video_url", "title", "thumbnail_url", "view_count", "posted_date", "video_id"}

\* The dict get_video_details builds from the upstream item of video vid:
\* item stands for the title, thumbnail_url, view_count and posted_date read
\* from it.  video_id is 0 and transcript <<>> while their keys are absent.
DetailRow(vid) ==
    [keys |-> DetailKeys, video_url |-> WatchUrl(vid), item |-> vid,
     video_id |-> vid, transcript |-> <<>>]

\* The batch without its repeated ids: videos.list answers with one item per
\* video it finds.
RECURSIVE Distinct(_)
Distinct(s) ==
    IF s = <<>> THEN <<>>
    ELSE LET rest == Distinct(SubSeq(s, 1, Len(s) - 1)) IN
         IF \E i \in 1 .. Len(s) - 1 : s[i] = s[Len(s)] THEN rest
         ELSE Append(rest, s[Len(s)])

Reverse(s) == [i \in 1 .. Len(s) |-> s[Len(s) + 1 - i]]

AllButFirst(s) == IF s = <<>> THEN <<>> ELSE Tail(s)

\* How videos.list(id=batch) ends: the videos it finds, in an order of its
\* own (all in the order asked, all reversed, all but the first, none), bad
\* the index of the first item without "id" (0: none).
Details(items, bad) ==
    [t |-> "ok", items |-> items, bad |-> bad, more |-> FALSE, err |-> NoHttpError]

DetailOutcomes(batch) ==
    {Details(items, 0) :
        items \in {Distinct(batch), Reverse(Distinct(batch)),
                   AllButFirst(Distinct(batch)), <<>>}}
    \cup {Details(Distinct(batch), 1)}
    \cup PageFailures

DetailsContext == "fetching video details"

\* DetailsPass putting the records of a chunk before those already there.
DetailsPassPrepends(ids, start, rows, o) ==
    LET batch == SubSeq(ids, start, Min(start + ChunkSize - 1, Len(ids)))
        request == <<Call("videos.list", batch, 0, o.t, Len(o.items))>>
        built == [i \in 1 .. Len(o.items) |-> DetailRow(o.items[i])]
    IN
    IF start > Len(ids)
    THEN [calls |-> <<>>, rows |-> rows, done |-> TRUE, exc |-> NoExc,
          caught |-> NoHttpError]
    ELSE IF o.t # "ok"
    THEN [calls |-> request, rows |-> rows, done |-> TRUE, exc |-> TransportError,
          caught |-> NoHttpError]
    ELSE [calls |-> request, rows |-> built \o rows,
          done |-> (start + ChunkSize > Len(ids)), exc |-> NoExc,
          caught |-> NoHttpError]

\* One pass of the for loop of get_video_details, lines 217-235, over the
\* chunk that chunked() yields at index start (1-based), the request ending
\* as o.
DetailsPass(ids, start, rows, o) ==
    LET batch == SubSeq(ids, start, Min(start + ChunkSize - 1, Len(ids)))
        request == <<Call("videos.list", batch, 0, o.t, Len(o.items))>>
        built == [i \in 1 .. Len(o.items) |-> DetailRow(o.items[i])]
    IN
    IF start > Len(ids)                                   \* chunked() is exhausted
    THEN [calls |-> <<>>, rows |-> rows, done |-> TRUE, exc |-> NoExc,
          caught |-> NoHttpError]
    ELSE IF o.t = "http"
    THEN [calls |-> request, rows |-> rows, done |-> TRUE,
          exc |-> _raise_friendly_http_error(o.err, DetailsContext), caught |-> o.err]
    ELSE IF o.t = "exc"
    THEN [calls |-> request, rows |-> rows, done |-> TRUE, exc |-> TransportError,
          caught |-> NoHttpError]
    ELSE IF o.bad >= 1 /\ o.bad <= Len(o.items)           \* it["id"]
    THEN [calls |-> request, rows |-> rows, done |-> TRUE, exc |-> KeyError,
          caught |-> NoHttpError]
    ELSE [calls |-> request, rows |-> rows \o built,
          done |-> (start + ChunkSize > Len(ids)), exc |-> NoExc,
          caught |-> NoHttpError]

\* run_export, line 61: one pass of get_video_details' loop.
GetVideoDetails ==
    /\ pc = "details"
    /\ \E o \in DetailOutcomes(SubSeq(video_ids, chunk_start,
                                      Min(chunk_start + ChunkSize - 1, Len(video_ids)))) :
        LET r == DetailsPass(video_ids, chunk_start, base_rows, o) IN
        /\ calls' = calls \o r.calls
        /\ base_rows' = r.rows
        /\ chunk_start' = IF r.calls = <<>> THEN chunk_start ELSE chunk_start + ChunkSize
        /\ exc' = r.exc
        /\ caught' = r.caught
        /\ context' = IF r.caught = NoHttpError THEN context ELSE DetailsContext
        /\ pc' = IF r.exc # NoExc THEN "raised"
                 ELSE IF r.done THEN "existing" ELSE "details"
    /\ UNCHANGED <<cfg, preferred, tracks, ident, channel_id, uploads, video_ids, page_token,
                   served, existing_urls, final_rows, row_idx, csv, sheet>>

\* ------------------------------------------------------ existing sheet rows

\* A row of the worksheet's first column: no cell, a cell that does not
\* start with http, or the watch URL of a video (NumVids + 1: a video that
\* is not among the uploads).
EmptyRow == [cell |-> FALSE, http |-> FALSE, url |-> WatchUrl(0)]
HeaderRow == [cell |-> TRUE, http |-> FALSE, url |-> WatchUrl(0)]
UrlRow(vid) == [cell |-> TRUE, http |-> TRUE, url |-> WatchUrl(vid)]

Values(rows) == [t |-> "ok", rows |-> rows]

ValuesOutcomes ==
    {Values(rows) :
        rows \in {<<>>, <<HeaderRow, UrlRow(1)>>, <<HeaderRow, UrlRow(2), EmptyRow>>,
                  <<HeaderRow, UrlRow(1), UrlRow(2)>>,
                  <<HeaderRow, UrlRow(NumVids + 1)>>}}
    \cup {[t |-> "http", rows |-> <<>>], [t |-> "exc", rows |-> <<>>]}

read_existing_video_urls(o) ==
    LET c == <<Call("values.get", 0, 0, o.t, Len(o.rows))>> IN
    IF o.t = "http" THEN Returned(c, {})                  \* except HttpError: return set()
    ELSE IF o.t = "exc" THEN Raised(c, TransportError)
    ELSE Returned(c, {o.rows[i].url :
                        i \in {j \in 1 .. Len(o.rows) : o.rows[j].cell /\ o.rows[j].http}})

\* run_export, lines 64-71.
ReadExistingVideoUrls ==
    /\ pc = "existing"
    /\ IF cfg.skip_existing /\ cfg.sheets
       THEN \E o \in ValuesOutcomes :
                LET r == read_existing_video_urls(o) IN
                /\ Outcome(r, "rows")
                /\ existing_urls' = IF r.exc = NoExc THEN r.value ELSE existing_urls
       ELSE /\ pc' = "rows"
            /\ UNCHANGED <<existing_urls, calls, exc, caught>>
    /\ UNCHANGED <<cfg, preferred, tracks, ident, channel_id, uploads, video_ids, page_token,
                   served, base_rows, chunk_start, final_rows, row_idx, context,
                   csv, sheet>>

\* ----------------------------------------------------- transcript fetcher

\* A caption track: has_id is FALSE when the item lacks "id".
Track(id, language, has_id) == [id |-> id, language |-> language, has_id |-> has_id]

\* How captions.list ends.
Tracks(items) == [t |-> "ok", items |-> items]
TracksHttpFailure == [t |-> "http", items |-> <<>>]
TracksOtherFailure == [t |-> "exc", items |-> <<>>]

\* How captions.download ends.
Srt(data) == [t |-> "ok", data |-> data]
SrtHttpFailure == [t |-> "http", data |-> <<>>]
SrtOtherFailure == [t |-> "exc", data |-> <<>>]

\* The listings and downloads run_export's upstream answers with.
PipelineTrackOutcomes ==
    {Tracks(items) :
        items \in {<<>>, <<Track(1, "fr", TRUE), Track(2, "en", TRUE)>>,
                   <<Track(3, "en", FALSE)>>}}
    \cup {TracksHttpFailure, TracksOtherFailure}

PipelineSrtOutcomes ==
    {Srt(<<" ", "s", "\n">>), SrtHttpFailure, SrtOtherFailure}

\* prefer_langs or ["en", "de"]: None and the empty list, both <<>> here, are
\* replaced by the default.
DefaultPreferLangs == <<"en", "de">>

PreferLangsOrDefault(prefer_langs) ==
    IF prefer_langs = <<>> THEN DefaultPreferLangs ELSE prefer_langs

InList(x, list) == \E i \in 1 .. Len(list) : list[i] = x

\* score(item)
Score(item, prefer_langs) == IF InList(item.language, prefer_langs) THEN 0 ELSE 1

\* sorted(items, key=score) with the key the position of the language in
\* prefer_langs: the track of the language listed first comes first.
SortedByRank(items, prefer_langs) ==
    LET Rank(it) ==
            IF InList(it.language, prefer_langs)
            THEN CHOOSE i \in 1 .. Len(prefer_langs) :
                    /\ prefer_langs[i] = it.language
                    /\ \A j \in 1 .. (i - 1) : prefer_langs[j] # it.language
            ELSE Len(prefer_langs) + 1
        RECURSIVE UpTo(_)
        UpTo(r) == IF r = 0 THEN <<>>
                   ELSE UpTo(r - 1) \o SelectSeq(items, LAMBDA it : Rank(it) = r)
    IN UpTo(Len(prefer_langs) + 1)

\* sorted(items, key=score): a stable sort on a key that is 0 or 1
SortedByScore(items, prefer_langs) ==
    SelectSeq(items, LAMBDA it : Score(it, prefer_langs) = 0)
        \o SelectSeq(items, LAMBDA it : Score(it, prefer_langs) = 1)

\* The text download_caption_track returns, or the exception it lets through.
download_caption_track(caption_id, o) ==
    LET c == <<Call("captions.download", caption_id, 0, o.t, 0)>> IN
    IF o.t = "http" THEN Returned(c, <<>>)                \* except HttpError: return ""
    ELSE IF o.t = "exc" THEN Raised(c, TransportError)
    ELSE Returned(c, o.data)

\* get_transcript_official without "if youtube_oauth is None: return """.
GetTranscriptNoSessionCheck(youtube_oauth, video_id, prefer_langs, lo, do) ==
    LET list == <<Call("captions.list", video_id, 0, lo.t, Len(lo.items))>>
        items_sorted == SortedByScore(lo.items, PreferLangsOrDefault(prefer_langs))
        d == download_caption_track(items_sorted[1].id, do)
    IN
    IF lo.t = "http" THEN Returned(list, <<>>)
    ELSE IF lo.t = "exc" THEN Raised(list, TransportError)
    ELSE IF lo.items = <<>> THEN Returned(list, <<>>)
    ELSE IF ~items_sorted[1].has_id THEN Raised(list, KeyError)
    ELSE IF d.exc # NoExc THEN Raised(list \o d.calls, d.exc)
    ELSE Returned(list \o d.calls, Strip(d.value))

\* youtube_oauth is TRUE for a session, FALSE for None; lo is how the
\* listing ends and do how the download ends.
get_transcript_official(youtube_oauth, video_id, prefer_langs, lo, do) ==
    LET list == <<Call("captions.list", video_id, 0, lo.t, Len(lo.items))>>
        items_sorted == SortedByScore(lo.items, PreferLangsOrDefault(prefer_langs))
        d == download_caption_track(items_sorted[1].id, do)
    IN
    IF ~youtube_oauth THEN Returned(<<>>, <<>>)
    ELSE IF lo.t = "http" THEN Returned(list, <<>>)       \* except HttpError: return ""
    ELSE IF lo.t = "exc" THEN Raised(list, TransportError)
    ELSE IF lo.items = <<>> THEN Returned(list, <<>>)
    ELSE IF ~items_sorted[1].has_id THEN Raised(list, KeyError)  \* items_sorted[0]["id"]
    ELSE IF d.exc # NoExc THEN Raised(list \o d.calls, d.exc)
    ELSE Returned(list \o d.calls, Strip(d.value))

\* ------------------------------------------------------------- run_export

\* FilterRow without the test of line 75: no row is skipped.
FilterRowIgnoresExisting ==
    /\ pc = "rows"
    /\ IF row_idx > Len(base_rows)
       THEN /\ pc' = "csv"
            /\ UNCHANGED <<final_rows, row_idx, calls, exc, caught>>
       ELSE LET r == base_rows[row_idx] IN
            \E lo \in PipelineTrackOutcomes, do \in PipelineSrtOutcomes :
                LET tr == IF cfg.oauth
                          THEN get_transcript_official(TRUE, r.video_id,
                                                       preferred.langs, lo, do)
                          ELSE Returned(<<>>, <<>>)
                    row == [r EXCEPT !.transcript = tr.value,
                                     !.video_id = 0,
                                     !.keys = (@ \cup {"transcript"}) \ {"video_id"}]
                IN
                /\ Outcome(tr, "rows")
                /\ row_idx' = row_idx + 1
                /\ final_rows' = IF tr.exc = NoExc THEN Append(final_rows, row)
                                 ELSE final_rows
    /\ UNCHANGED <<cfg, preferred, tracks, ident, channel_id, uploads, video_ids,
                   page_token, served, base_rows, chunk_start, existing_urls,
                   context, csv, sheet>>

\* run_export, lines 74-82: one pass of the loop over base_rows.
FilterRow ==
    /\ pc = "rows"
    /\ IF row_idx > Len(base_rows)
       THEN /\ pc' = "csv"
            /\ UNCHANGED <<final_rows, row_idx, calls, exc, caught>>
       ELSE LET r == base_rows[row_idx] IN
            IF cfg.skip_existing /\ existing_urls # {} /\ r.video_url \in existing_urls
            THEN /\ row_idx' = row_idx + 1                \* continue
                 /\ UNCHANGED <<pc, final_rows, calls, exc, caught>>
            ELSE \E lo \in PipelineTrackOutcomes, do \in PipelineSrtOutcomes :
                    LET tr == IF cfg.oauth
                              THEN get_transcript_official(TRUE, r.video_id,
                                                           preferred.langs, lo, do)
                              ELSE Returned(<<>>, <<>>)
                        row == [r EXCEPT !.transcript = tr.value,
                                         !.video_id = 0,
                                         !.keys = (@ \cup {"transcript"}) \ {"video_id"}]
                    IN
                    /\ Outcome(tr, "rows")
                    /\ row_idx' = row_idx + 1
                    /\ final_rows' = IF tr.exc = NoExc THEN Append(final_rows, row)
                                     ELSE final_rows
    /\ UNCHANGED <<cfg, preferred, tracks, ident, channel_id, uploads, video_ids, page_token,
                   served, base_rows, chunk_start, existing_urls, context, csv,
                   sheet>>

CsvHeaders == {"video_url", "title", "thumbnail_url", "view_count", "posted_date", "transcript"}

\* {k: r.get(k, "") for k in headers}
CsvRow(r) == [r EXCEPT !.keys = CsvHeaders,
                       !.video_id = 0]

\* WriteCsv leaving the file unwritten: run_export going to the sheet first.
WriteCsvSkipped ==
    /\ pc = "csv"
    /\ pc' = "sheets"
    /\ UNCHANGED <<cfg, preferred, tracks, ident, channel_id, uploads, video_ids,
                   page_token, served, base_rows, chunk_start, existing_urls,
                   final_rows, row_idx, calls, exc, caught, context, csv, sheet>>

\* run_export, lines 86-88, and rows_to_csv.
WriteCsv ==
    /\ pc = "csv"
    /\ csv' = IF cfg.out_csv
              THEN [written |-> TRUE,
                    rows |-> [i \in 1 .. Len(final_rows) |-> CsvRow(final_rows[i])]]
              ELSE csv
    /\ pc' = "sheets"
    /\ UNCHANGED <<cfg, preferred, tracks, ident, channel_id, uploads, video_ids, page_token,
                   served, base_rows, chunk_start, existing_urls, final_rows,
                   row_idx, calls, exc, caught, context, sheet>>

\* -------------------------------------------------------------- the sheet

\* How spreadsheets.get ends: found is whether sheet_name is among the titles.
Titles(found) == [t |-> "ok", found |-> found]
MetaOutcomes == {Titles(TRUE), Titles(FALSE), [t |-> "http", found |-> FALSE],
                 [t |-> "exc", found |-> FALSE]}

\* How values.append ends.
AppendOutcomes == {"ok", "http", "exc"}

SheetNotFoundError == Exception("SheetNotFound", "Worksheet not found", "", 0, "")
MetadataDenied == Exception("PermissionDenied", "Cannot access spreadsheet metadata.", "", 0, "")
WriteDenied ==
    Exception("PermissionDenied", "Permission denied while writing to Google Sheets.", "", 0, "")

ensure_sheet_exists(o) ==
    LET c == <<Call("spreadsheets.get", 0, 0, o.t, IF o.found THEN 1 ELSE 0)>> IN
    IF o.t = "http" THEN Raised(c, MetadataDenied)
    ELSE IF o.t = "exc" THEN Raised(c, TransportError)
    ELSE IF ~o.found THEN Raised(c, SheetNotFoundError)
    ELSE Returned(c, <<>>)

\* append_to_sheet with ensure_sheet_exists called after the append.
AppendBeforeCheck(rows, meta, app) ==
    LET e == ensure_sheet_exists(meta)
        c == <<Call("values.append", Len(rows) + 1, 0, app, 0)>>
    IN
    IF app = "http" THEN Raised(c, WriteDenied)
    ELSE IF app = "exc" THEN Raised(c, TransportError)
    ELSE IF e.exc # NoExc THEN Raised(c \o e.calls, e.exc)
    ELSE Returned(c \o e.calls, rows)

\* value: the rows appended under the header row.
append_to_sheet(rows, meta, app) ==
    LET e == ensure_sheet_exists(meta)
        c == e.calls \o <<Call("values.append", Len(rows) + 1, 0, app, 0)>>
    IN
    IF e.exc # NoExc THEN e
    ELSE IF app = "http" THEN Raised(c, WriteDenied)
    ELSE IF app = "exc" THEN Raised(c, TransportError)
    ELSE Returned(c, rows)

\* run_export, lines 90-105.
AppendToSheet ==
    /\ pc = "sheets"
    /\ IF cfg.sheets
       THEN \E meta \in MetaOutcomes, app \in AppendOutcomes :
                LET r == append_to_sheet(final_rows, meta, app) IN
                /\ Outcome(r, "done")
                /\ sheet' = IF r.exc = NoExc THEN [written |-> TRUE, rows |-> r.value]
                            ELSE sheet
       ELSE /\ pc' = "done"
            /\ UNCHANGED <<sheet, calls, exc, caught>>
    /\ UNCHANGED <<cfg, preferred, tracks, ident, channel_id, uploads, video_ids, page_token,
                   served, base_rows, chunk_start, existing_urls, final_rows,
                   row_idx, context, csv>>

\* ---------------------------------------------------------- specifications

\* The channel references run_export is given: a handle, a legacy username,
\* a channel id.
Repeat(c, n) == [i \in 1 .. n |-> c]
ExampleHandle == <<"@", "e", "x", "a", "m", "p", "l", "e">>
ExampleUsername == <<"b", "o", "b">>
ExampleChannelId == UC \o Repeat("a", MinIdLen)

PipelineInputs == {ExampleHandle, ExampleUsername, ExampleChannelId}

Init ==
    /\ cfg \in {Config(c, m, o, s, a, k) :
                    c \in PipelineInputs, m \in MaxVideosRange, o \in BOOLEAN,
                    s \in BOOLEAN, a \in BOOLEAN, k \in BOOLEAN}
    /\ pc = "start"
    /\ uploads = <<>>
    /\ caught = NoHttpError
    /\ context = ""
    /\ Fresh
    /\ NoTranscriptArguments

Next ==
    \/ Start
    \/ ResolveChannelId
    \/ GetUploadsPlaylistId
    \/ ListUploadVideoIds(PipelinePages)
    \/ GetVideoDetails
    \/ ReadExistingVideoUrls
    \/ FilterRow
    \/ WriteCsv
    \/ AppendToSheet

Spec == Init /\ [][Next]_vars

\* ------------------------------------- the parser and the resolver alone

\* Channel references put together from pieces, so that each pattern of the
\* parser is met, missed by one character, and met together with others.
ExCom == <<"e", "x", ".", "c", "o", "m">>
Https == <<"h", "t", "t", "p", "s", ":", "/", "/">>
Bob == <<"b", "o", "b">>
CustomZed == YoutubeCom \o Slash \o CSeg \o <<"z", "e", "d">>

\* UC and a run of n id characters
ChannelIdOf(n) == UC \o Repeat("a", n)

Leads == {<<>>, <<" ">>}
Fronts == {<<>>, Https, CustomZed \o Slash}
Hosts == {<<>>, YoutubeCom \o Slash, YoutuBe \o Slash, ExCom \o Slash}
Segments == {<<>>, At, ChannelSeg, UserSeg, CSeg}
Bodies ==
    {<<>>, Bob, <<"b", ".", "b">>}
    \cup {ChannelIdOf(n) : n \in (MinIdLen - 1) .. (MinIdLen + MaxExtra)}
Ends == {<<>>, <<"\n">>, <<"/", "v">>, <<"?">>, Slash \o CustomZed}

ParseInputs ==
    {l \o f \o h \o s \o b \o e :
        l \in Leads, f \in Fronts, h \in Hosts, s \in Segments, b \in Bodies,
        e \in Ends}

InitParse ==
    /\ cfg \in {Config(c, 0, FALSE, FALSE, FALSE, FALSE) : c \in ParseInputs}
    /\ pc = "start"
    /\ uploads = <<>>
    /\ caught = NoHttpError
    /\ context = ""
    /\ Fresh
    /\ NoTranscriptArguments

NextParse ==
    \/ Start
    \/ ResolveChannelId

SpecParse == InitParse /\ [][NextParse]_vars

\* ------------------------------------------------ the error classifier alone

Contexts == {ResolveContext, UploadsContext, ListContext, DetailsContext}

\* except HttpError as e: _raise_friendly_http_error(e, context), on its own.
Classify ==
    /\ pc = "classify"
    /\ exc' = _raise_friendly_http_error(caught, context)
    /\ pc' = IF exc' = NoExc THEN "returned" ELSE "raised"
    /\ UNCHANGED <<cfg, preferred, tracks, ident, channel_id, uploads, video_ids, page_token,
                   served, base_rows, chunk_start, existing_urls, final_rows,
                   row_idx, calls, caught, context, csv, sheet>>

InitClassify ==
    /\ cfg = Config(ExampleHandle, 0, FALSE, FALSE, FALSE, FALSE)
    /\ pc = "classify"
    /\ uploads = <<>>
    /\ caught \in HttpErrors
    /\ context \in Contexts
    /\ Fresh
    /\ NoTranscriptArguments

NextClassify == Classify

SpecClassify == InitClassify /\ [][NextClassify]_vars

\* ---------------------------------------------- the uploads enumerator alone

InitList ==
    /\ cfg \in {Config(ExampleHandle, m, FALSE, FALSE, FALSE, FALSE) :
                    m \in MaxVideosRange}
    /\ pc = "list"
    /\ uploads = UploadsId
    /\ caught = NoHttpError
    /\ context = ""
    /\ Fresh
    /\ NoTranscriptArguments

NextList == ListUploadVideoIds(AllPages)

SpecList == InitList /\ [][NextList]_vars

\* ------------------------------------- the pagination protocol, full pages

\* Pages that differ in their size alone: none to MaxPageLen items, or a full
\* page of 50.
PagingPages ==
    {Page(Repeat(1, n), bad, more) :
        n \in (0 .. MaxPageLen) \cup {PageSize}, bad \in {0, 1}, more \in BOOLEAN}

\* max_videos below, at and above the size of a full page.
PagingMaxVideos == {1, MaxVideos, PageSize, PageSize + MaxPageLen + 1}

InitPaging ==
    /\ cfg \in {Config(ExampleHandle, m, FALSE, FALSE, FALSE, FALSE) :
                    m \in PagingMaxVideos}
    /\ pc = "list"
    /\ uploads = UploadsId
    /\ caught = NoHttpError
    /\ context = ""
    /\ Fresh
    /\ NoTranscriptArguments

NextPaging == ListUploadVideoIds(PagingPages)

SpecPaging == InitPaging /\ [][NextPaging]_vars

\* execute() blocks until the upstream has answered, and the loop then goes
\* on: a pass that can be taken is taken.
SpecPagingLive == SpecPaging /\ WF_vars(NextPaging)

\* ---------------------------------------------------- the detail fetcher alone

\* The lengths of the id lists: none, one, and one less than, exactly and one
\* more than each number of full chunks.
DetailLengths ==
    {0, 1} \cup {k * ChunkSize + d : k \in 1 .. MaxChunks, d \in {0 - 1, 0, 1}}

\* The id lists get_video_details is given: the ids 1 .. n in order, and a
\* list that holds an id twice.
DetailInputs == {[i \in 1 .. n |-> i] : n \in DetailLengths} \cup {<<1, 1>>}

InitDetails ==
    /\ cfg = Config(ExampleHandle, MaxChunks * ChunkSize + 1, FALSE, FALSE, FALSE, FALSE)
    /\ pc = "details"
    /\ video_ids \in DetailInputs
    /\ ident = Ident("", <<>>)
    /\ channel_id = <<>>
    /\ uploads = UploadsId
    /\ page_token = 0
    /\ served = <<>>
    /\ base_rows = <<>>
    /\ chunk_start = 1
    /\ existing_urls = {}
    /\ final_rows = <<>>
    /\ row_idx = 1
    /\ calls = <<>>
    /\ exc = NoExc
    /\ caught = NoHttpError
    /\ context = ""
    /\ csv = NoFile
    /\ sheet = NoFile
    /\ NoTranscriptArguments

NextDetails == GetVideoDetails

SpecDetails == InitDetails /\ [][NextDetails]_vars

\* ------------------------------------------------ the transcript fetcher alone

\* snippet.language of a track; "" when the item carries none.
Langs == {"en", "de", "fr", ""}

\* The caption listings of up to MaxTracks tracks, the track at position i
\* with the id i; bad is the position of a track without "id" (0: none).
TrackLists ==
    UNION {{[i \in 1 .. n |-> Track(i, l[i], i # bad)] :
                l \in [1 .. n -> Langs], bad \in {0, 1}} : n \in 0 .. MaxTracks}

\* prefer_langs: left out, or a list.
PreferLists == {<<>>, <<"en", "de">>, <<"de", "en">>, <<"fr">>, <<"it">>}

PreferArguments ==
    {[given |-> FALSE, langs |-> <<>>]}
    \cup {[given |-> TRUE, langs |-> l] : l \in PreferLists}

\* get_transcript_official(youtube_oauth, video_id, prefer_langs), called
\* with a session.
GetTranscript ==
    /\ pc = "transcript"
    /\ \E do \in PipelineSrtOutcomes :
        LET r == get_transcript_official(TRUE, 1, preferred.langs, tracks, do) IN
        /\ Outcome(r, "returned")
        /\ final_rows' = IF r.exc = NoExc
                          THEN <<[DetailRow(1) EXCEPT !.transcript = r.value]>>
                          ELSE final_rows
    /\ UNCHANGED <<cfg, preferred, tracks, ident, channel_id, uploads, video_ids,
                   page_token, served, base_rows, chunk_start, existing_urls,
                   row_idx, context, csv, sheet>>

InitTranscript ==
    /\ cfg = Config(ExampleHandle, 1, FALSE, FALSE, TRUE, FALSE)
    /\ pc = "transcript"
    /\ uploads = <<>>
    /\ caught = NoHttpError
    /\ context = ""
    /\ Fresh
    /\ preferred \in PreferArguments
    /\ tracks \in {Tracks(items) : items \in TrackLists}

NextTranscript == GetTranscript

SpecTranscript == InitTranscript /\ [][NextTranscript]_vars

\* ------------------------------------------------------------------ claims

NoDuplicates(s) == \A i, j \in 1 .. Len(s) : s[i] = s[j] => i = j

IsPrefix(s, of) == Len(s) <= Len(of) /\ s = SubSeq(of, 1, Len(s))

CallsTo(api) == SelectSeq(calls, LAMBDA c : c.api = api)

\* list_upload_video_ids has returned (SpecList starts at its call).
ListReturned == pc = "details"

\* C1: list_upload_video_ids returns at most max_videos ids, whatever pages
\* the upstream serves; for max_videos <= 0 it returns the empty list and
\* requests no playlist page.  (No list is shorter than 0 ids: for a negative
\* max_videos the length bound is the empty list of the second half.)
C1_AtMostMaxVideos ==
    ListReturned =>
        /\ cfg.max_videos >= 0 => Len(video_ids) <= cfg.max_videos
        /\ cfg.max_videos <= 0 =>
              /\ video_ids = <<>>
              /\ CallsTo("playlistItems.list") = <<>>

\* The upstream served more ids than max_videos and the result was cut.
C1_Witness ==
    /\ ListReturned
    /\ cfg.max_videos = MaxVideos
    /\ Len(video_ids) = MaxVideos
    /\ Len(served) > MaxVideos
    /\ Len(CallsTo("playlistItems.list")) >= 2

\* C2, as claimed: the returned list holds no video id twice and follows the
\* order of the upstream pages.
C2_OrderedAndDeduplicated ==
    ListReturned =>
        /\ NoDuplicates(video_ids)
        /\ IsPrefix(video_ids, served)

\* C2, amended: the returned list is the ids the upstream pages served, in
\* the order served, cut after max_videos; nothing is removed from it, so it
\* is free of duplicates when the pages served are.
C2_ServedOrderCutAtMax ==
    ListReturned =>
        /\ video_ids = SubSeq(served, 1, Min(Max(cfg.max_videos, 0), Len(served)))
        /\ NoDuplicates(served) => NoDuplicates(video_ids)

\* Two pages that share no id were both appended.
C2_Witness ==
    /\ ListReturned
    /\ Len(CallsTo("playlistItems.list")) >= 2
    /\ Len(video_ids) >= 2
    /\ NoDuplicates(served)
    /\ video_ids = served

\* resolve_channel_id has returned or raised (SpecParse stops there).
Resolved == pc \notin {"start", "resolve"}

UsernameLookup == "channels.list:forUsername"

\* C3: for a forUsername reference resolve_channel_id first issues exactly
\* one username lookup, and the keyword search exactly when that lookup
\* answered with no item; an item's id is the result, with no search; when
\* lookup and search both answer with nothing, it raises
\* FriendlyError("Channel not found").
C3_SearchOnlyAfterEmptyLookup ==
    (Resolved /\ ident.key = "forUsername") =>
        LET searches == CallsTo("search.list") IN
        /\ calls # <<>>
        /\ calls[1].api = UsernameLookup
        /\ Len(CallsTo(UsernameLookup)) = 1
        /\ Len(searches) <= 1
        /\ searches # <<>> <=> (calls[1].ended = "ok" /\ calls[1].got = 0)
        /\ searches # <<>> => calls[2].api = "search.list"
        /\ (calls[1].ended = "ok" /\ calls[1].got > 0) =>
              /\ Len(calls) = 1
              /\ exc \in {NoExc, KeyError}
              /\ exc = NoExc => channel_id = LookupId
        /\ (searches # <<>> /\ calls[2].ended = "ok" /\ calls[2].got = 0) =>
              exc = FriendlyError("Channel not found")

\* The lookup answered with nothing and the search found the channel.
C3_Witness ==
    /\ pc = "uploads"
    /\ ident.key = "forUsername"
    /\ Len(calls) = 2
    /\ calls[1].api = UsernameLookup /\ calls[1].got = 0
    /\ calls[2].api = "search.list"
    /\ channel_id = SearchId

\* UC followed by at least MinIdLen id characters, and nothing else.
ExactChannelId(s) ==
    /\ Len(s) >= 2 + MinIdLen
    /\ s[1] = "U" /\ s[2] = "C"
    /\ \A i \in 3 .. Len(s) : s[i] \in IdChars

\* C4: an input that is exactly UC and at least 20 id characters parses to
\* the id reference holding the input, and resolve_channel_id returns the id
\* of an id reference as it is, with no upstream call.
C4_ChannelIdVerbatimNoCall ==
    /\ (pc # "start" /\ ExactChannelId(cfg.channel_input)) =>
            ident = Ident("id", cfg.channel_input)
    /\ (Resolved /\ ident.key = "id") =>
            /\ channel_id = ident.value
            /\ calls = <<>>
            /\ exc = NoExc

\* A channel id longer than the minimum went through parser and resolver.
C4_Witness ==
    /\ pc = "uploads"
    /\ ExactChannelId(cfg.channel_input)
    /\ Len(cfg.channel_input) > 2 + MinIdLen
    /\ channel_id = cfg.channel_input
    /\ calls = <<>>

\* The reason the claim speaks of: that of the first element of the error
\* list when the body has one, else none.
ExtractedReason(p) ==
    IF p.json /\ p.top = "dict" /\ p.error = "dict" /\ p.errors = "list"
       /\ p.first = "dict"
    THEN p.reason
    ELSE ""

\* C5: the classifier always raises: QuotaExceededError with the remediation
\* text when the extracted reason is quotaExceeded; otherwise (another
\* reason, none, or a body the extraction cannot read, which counts as no
\* reason) a FriendlyError holding the context, the status and the reason or
\* "unknown".
C5_ClassifierAlwaysRaises ==
    (pc \in {"raised", "returned"} /\ caught # NoHttpError) =>
        LET reason == ExtractedReason(caught.payload) IN
        /\ pc = "raised"
        /\ IF reason = "quotaExceeded"
           THEN /\ exc.kind = "QuotaExceeded"
                /\ exc.message = QuotaMessage
           ELSE /\ exc.kind = "Generic"
                /\ exc.context = context
                /\ exc.status = caught.status
                /\ exc.reason = IF reason = "" THEN "unknown" ELSE reason

\* A body that is no JSON, though it spells quotaExceeded, was classified as
\* a generic failure with reason unknown.
C5_Witness ==
    /\ pc = "raised"
    /\ ~caught.payload.json
    /\ caught.payload.reason = "quotaExceeded"
    /\ exc.kind = "Generic"
    /\ exc.reason = "unknown"
    /\ exc.context = DetailsContext

\* The patterns of C9, stated on positions.  SegmentAt: the literal lit
\* stands at position i and at least min characters of cls follow it.
SegmentAt(s, i, lit, cls, min) ==
    /\ LitAt(s, i, lit)
    /\ i + Len(lit) + min - 1 <= Len(s)
    /\ \A j \in 0 .. min - 1 : s[i + Len(lit) + j] \in cls

\* The name that starts at position k: the characters of cls from k up to
\* the first character outside cls, or the end.
NameAt(s, k, cls) ==
    LET n == CHOOSE m \in 0 .. Len(s) - k + 1 :
                 /\ \A j \in k .. k + m - 1 : s[j] \in cls
                 /\ k + m > Len(s) \/ s[k + m] \notin cls
    IN  SubSeq(s, k, k + n - 1)

\* Where s contains  host seg name, host one of hosts and name at least min
\* characters of cls.
Occurrences(s, hosts, seg, cls, min) ==
    {i \in 1 .. Len(s) : \E h \in hosts : SegmentAt(s, i, h \o seg, cls, min)}

Contains(s, hosts, seg, cls, min) == Occurrences(s, hosts, seg, cls, min) # {}

\* The name of the first occurrence.
FirstName(s, hosts, seg, cls, min) ==
    LET occ == Occurrences(s, hosts, seg, cls, min)
        i == CHOOSE k \in occ : \A m \in occ : k <= m
        h == CHOOSE g \in hosts : SegmentAt(s, i, g \o seg, cls, min)
    IN  NameAt(s, i + Len(h) + Len(seg), cls)

\* The reference C9 assigns to an input, the URL patterns being looked for
\* behind one of handleHosts (the handle pattern) or urlHosts (the others);
\* <<>> as a host is no host at all.
ClaimedReference(input, handleHosts, urlHosts) ==
    LET s == Strip(input) IN
    CASE s # <<>> /\ s[1] = "@" ->
            Ident("forHandle", s)
      [] OTHER -> CASE ExactChannelId(s) ->
            Ident("id", s)
      [] OTHER -> CASE Contains(s, handleHosts, Slash \o At, HandleChars, 1) ->
            Ident("forHandle", At \o FirstName(s, handleHosts, Slash \o At, HandleChars, 1))
      [] OTHER -> CASE Contains(s, urlHosts, Slash \o ChannelSeg \o UC, IdChars, MinIdLen) ->
            Ident("id", UC \o FirstName(s, urlHosts, Slash \o ChannelSeg \o UC, IdChars, MinIdLen))
      [] OTHER -> CASE Contains(s, urlHosts, Slash \o UserSeg, HandleChars, 1) ->
            Ident("forUsername", FirstName(s, urlHosts, Slash \o UserSeg, HandleChars, 1))
      [] OTHER -> CASE Contains(s, urlHosts, Slash \o CSeg, HandleChars, 1) ->
            Ident("customUrl", FirstName(s, urlHosts, Slash \o CSeg, HandleChars, 1))
      [] OTHER ->
            Ident("forUsername", s)

IdentKeys == {"id", "forHandle", "forUsername", "customUrl"}

\* parse_channel_identifier has returned.
Parsed == pc # "start"

\* C9, as claimed: every input gets exactly one variant, the first in the
\* order: leading @; the whole input a channel id; contains /@handle;
\* contains /channel/UC...; contains /user/<name>; contains /c/<name>; else
\* the input as a username.
C9_FirstMatchAnyHost ==
    Parsed =>
        /\ ident.key \in IdentKeys
        /\ ident = ClaimedReference(cfg.channel_input, {<<>>}, {<<>>})

\* C9, amended: the same order over the trimmed input, the handle segment
\* counting only right behind youtube.com or youtu.be and the channel, user
\* and c segments only right behind youtube.com.
C9_FirstMatchBehindYoutubeHost ==
    Parsed =>
        /\ ident.key \in IdentKeys
        /\ ident = ClaimedReference(cfg.channel_input, {YoutubeCom, YoutuBe}, {YoutubeCom})

\* An input with a /c/ URL followed by a /user/ URL became the username.
C9_Witness ==
    /\ Parsed
    /\ cfg.channel_input = CustomZed \o Slash \o YoutubeCom \o Slash \o UserSeg \o Bob
    /\ ident = Ident("forUsername", Bob)

CaptionApis == {"captions.list", "captions.download"}

\* The last upstream call issued was a caption call.
InTranscriptFetch == calls # <<>> /\ calls[Len(calls)].api \in CaptionApis

\* C6: no failure of the caption listing or of the caption download leaves
\* get_transcript_official: the run never ends with an exception raised in
\* the transcript fetch, and a row whose fetch failed is kept with an empty
\* transcript.
C6_TranscriptFailuresNeverPropagate ==
    /\ pc = "raised" => ~InTranscriptFetch
    /\ (InTranscriptFetch /\ calls[Len(calls)].ended # "ok") =>
          /\ final_rows # <<>>
          /\ final_rows[Len(final_rows)].transcript = <<>>

\* The calls whose HttpError goes to the classifier.
ClassifiedApis ==
    {"channels.list:forHandle", "channels.list:forUsername", "search.list",
     "channels.list:id", "playlistItems.list", "videos.list"}

\* C7: when a call of the resolution, the uploads lookup, the pagination or
\* the detail fetch fails, run_export raises QuotaExceededError or
\* FriendlyError at once: the failed call is the last one issued, no CSV file
\* and no sheet row is written; and run_export ends only by returning or by
\* raising an ExportError.
C7_UpstreamFailureRaisesExportError ==
    /\ \A i \in 1 .. Len(calls) :
          (calls[i].api \in ClassifiedApis /\ calls[i].ended # "ok") =>
              /\ i = Len(calls)
              /\ pc = "raised"
              /\ exc.kind \in {"QuotaExceeded", "Generic"}
              /\ ~csv.written
              /\ ~sheet.written
    /\ pc = "raised" => exc.kind \in ExportErrorKinds

\* C8: without a session get_transcript_official returns "" and calls
\* nothing; so run_export without OAuth client secrets issues no caption call
\* and every record it keeps has an empty transcript; it keeps at most
\* max_videos records (none for max_videos < 0), and both records when
\* max_videos is 2 and the upstream has two videos.
C8_NoSessionNoTranscript ==
    /\ \A lo \in PipelineTrackOutcomes, do \in PipelineSrtOutcomes, v \in Vids :
          get_transcript_official(FALSE, v, DefaultPreferLangs, lo, do)
              = Returned(<<>>, <<>>)
    /\ ~cfg.oauth =>
          /\ \A i \in 1 .. Len(calls) : calls[i].api \notin CaptionApis
          /\ \A i \in 1 .. Len(final_rows) :
                /\ "transcript" \in final_rows[i].keys
                /\ final_rows[i].transcript = <<>>
    /\ Len(final_rows) <= Max(cfg.max_videos, 0)
    /\ (/\ pc = "done"
        /\ ~cfg.oauth
        /\ cfg.max_videos = 2
        /\ Len(base_rows) = 2
        /\ ~(cfg.skip_existing /\ existing_urls # {})) =>
          Len(final_rows) = 2

\* "@example", max 2, two videos, no OAuth: two records, no transcript.
C8_Witness ==
    /\ pc = "done"
    /\ cfg.channel_input = ExampleHandle
    /\ cfg.max_videos = 2
    /\ ~cfg.oauth
    /\ Len(final_rows) = 2
    /\ final_rows[1].video_url # final_rows[2].video_url
    /\ \A i \in 1 .. 2 : final_rows[i].transcript = <<>>
    /\ csv.written /\ Len(csv.rows) = 2

\* C10: values.append is issued only right after a spreadsheets.get that
\* listed the worksheet; when the worksheet is missing (SheetNotFoundError)
\* or the metadata cannot be read (PermissionDeniedError) the error ends the
\* run and no append is issued.
C10_ExistenceCheckBeforeAppend ==
    /\ \A i \in 1 .. Len(calls) :
          calls[i].api = "values.append" =>
              /\ i > 1
              /\ calls[i - 1].api = "spreadsheets.get"
              /\ calls[i - 1].ended = "ok"
              /\ calls[i - 1].got = 1
    /\ \A i \in 1 .. Len(calls) :
          (calls[i].api = "spreadsheets.get" /\ calls[i].ended = "ok" /\ calls[i].got = 0) =>
              /\ i = Len(calls)
              /\ pc = "raised"
              /\ exc = SheetNotFoundError
    /\ \A i \in 1 .. Len(calls) :
          (calls[i].api = "spreadsheets.get" /\ calls[i].ended = "http") =>
              /\ i = Len(calls)
              /\ pc = "raised"
              /\ exc = MetadataDenied
    /\ (pc = "raised" /\ exc \in {SheetNotFoundError, MetadataDenied}) =>
          /\ CallsTo("values.append") = <<>>
          /\ ~sheet.written

\* The worksheet was missing: the run ended after the existence check, with
\* rows to append and none appended.
C10_Witness ==
    /\ pc = "raised"
    /\ exc = SheetNotFoundError
    /\ calls[Len(calls)].api = "spreadsheets.get"
    /\ final_rows # <<>>
    /\ ~sheet.written

\* The playlistItems.list calls issued so far.
PageLog == CallsTo("playlistItems.list")

\* The number of ids the first i pages of the log brought.
RECURSIVE Accumulated(_, _)
Accumulated(log, i) == IF i = 0 THEN 0 ELSE Accumulated(log, i - 1) + log[i].got

\* C11: every playlist-page request asks for min(50, remaining) items, where
\* remaining is max_videos less the ids accumulated so far, which is between
\* 1 and 50; it passes the token of the page before it (page i carries the
\* token i; the first request passes none); and a request is followed by
\* another only when its page came with a token and left the accumulated
\* count below max_videos.
C11_PageRequests ==
    /\ \A i \in 1 .. Len(PageLog) :
          LET remaining == cfg.max_videos - Accumulated(PageLog, i - 1) IN
          /\ PageLog[i].n = Min(PageSize, remaining)
          /\ PageLog[i].n \in 1 .. PageSize
          /\ PageLog[i].tok = i - 1
          /\ i < Len(PageLog) =>
                /\ PageLog[i].ended = "ok"
                /\ Accumulated(PageLog, i) < cfg.max_videos
    /\ (pc = "list" /\ PageLog # <<>>) =>
          /\ page_token = Len(PageLog)
          /\ Len(video_ids) = Accumulated(PageLog, Len(PageLog))
          /\ Len(video_ids) < cfg.max_videos

\* A full page was asked for and served, and the rest asked for with the
\* token of that page.
C11_Witness ==
    /\ ListReturned
    /\ cfg.max_videos = PageSize + MaxPageLen + 1
    /\ Len(PageLog) = 2
    /\ PageLog[1].n = PageSize /\ PageLog[1].got = PageSize /\ PageLog[1].tok = 0
    /\ PageLog[2].n = MaxPageLen + 1 /\ PageLog[2].tok = 1

Range(s) == {s[i] : i \in 1 .. Len(s)}

\* The first track whose language is in the set langs, and the first track
\* when there is none.
FirstPreferred(items, langs) ==
    LET hits == {i \in 1 .. Len(items) : items[i].language \in langs} IN
    IF hits = {} THEN items[1]
    ELSE items[CHOOSE i \in hits : \A j \in hits : i <= j]

Downloads == CallsTo("captions.download")

\* get_transcript_official has returned or raised, having listed tracks.
TrackChosen == pc # "transcript" /\ tracks.items # <<>>

\* The one download there is, is of track t; there is one when t has an id.
DownloadsOnly(t) ==
    /\ Len(Downloads) <= 1
    /\ \A i \in 1 .. Len(Downloads) : Downloads[i].n = t.id
    /\ t.has_id => Len(Downloads) = 1

\* C12, as claimed: of a non-empty caption listing the track downloaded is
\* the first whose language is in preferredLanguages ([en, de] when the
\* argument is left out), and the first track when no language is; where a
\* language stands in preferredLanguages makes no difference.
C12_FirstTrackOfPreferredLanguage ==
    TrackChosen =>
        DownloadsOnly(FirstPreferred(tracks.items,
            IF preferred.given THEN Range(preferred.langs)
            ELSE Range(DefaultPreferLangs)))

\* C12, corrected: the same, with an empty preferredLanguages standing for
\* [en, de] like an argument left out.
C12_FirstTrackOfPreferredOrDefault ==
    TrackChosen =>
        DownloadsOnly(FirstPreferred(tracks.items,
            IF preferred.given /\ preferred.langs # <<>>
            THEN Range(preferred.langs)
            ELSE Range(DefaultPreferLangs)))

\* [fr, de, en] with [en, de] preferred: the de track, the second, is the one
\* downloaded.
C12_Witness ==
    /\ pc = "returned"
    /\ preferred = [given |-> TRUE, langs |-> <<"en", "de">>]
    /\ Len(tracks.items) = 3
    /\ tracks.items[1].language = "fr"
    /\ tracks.items[2].language = "de"
    /\ tracks.items[3].language = "en"
    /\ Len(Downloads) = 1
    /\ Downloads[1].n = 2
    /\ Downloads[1].ended = "ok"

DetailLog == CallsTo("videos.list")

\* The ids the first i detail calls asked for, one after the other.
RECURSIVE Asked(_, _)
Asked(log, i) == IF i = 0 THEN <<>> ELSE Asked(log, i - 1) \o log[i].n

\* get_video_details has returned (SpecDetails starts at its call).
DetailsReturned == pc = "existing"

\* C13: every detail call asks for a chunk of 1 to 50 ids, the chunks asked
\* for so far are, one after the other, the start of video_ids and on return
\* all of it (no call for no ids); the records follow the order of the
\* calls, those of call i being built from videos of chunk i; and every
\* record's video_url is https://www.youtube.com/watch?v= and the id of the
\* upstream item it was built from.
C13_ChunkedDetailCalls ==
    /\ \A i \in 1 .. Len(DetailLog) :
          /\ Len(DetailLog[i].n) \in 1 .. ChunkSize
          /\ i < Len(DetailLog) => DetailLog[i].ended = "ok"
    /\ IsPrefix(Asked(DetailLog, Len(DetailLog)), video_ids)
    /\ DetailsReturned => Asked(DetailLog, Len(DetailLog)) = video_ids
    /\ video_ids = <<>> => DetailLog = <<>>
    /\ pc # "raised" =>
          /\ Len(base_rows) = Accumulated(DetailLog, Len(DetailLog))
          /\ \A i \in 1 .. Len(DetailLog) :
                \A k \in (Accumulated(DetailLog, i - 1) + 1) .. Accumulated(DetailLog, i) :
                    base_rows[k].video_id \in Range(DetailLog[i].n)
    /\ \A k \in 1 .. Len(base_rows) :
          /\ base_rows[k].video_url.base = "https://www.youtube.com/watch?v="
          /\ base_rows[k].video_url.v = base_rows[k].item

\* Two full chunks and one id more: three calls, the first two answered in
\* reverse order, and a record for every id.
C13_Witness ==
    /\ DetailsReturned
    /\ Len(video_ids) = 2 * ChunkSize + 1
    /\ Len(DetailLog) = 3
    /\ Len(DetailLog[3].n) = 1
    /\ Len(base_rows) = Len(video_ids)
    /\ base_rows[1].video_id = ChunkSize
    /\ base_rows[ChunkSize + 1].video_id = 2 * ChunkSize
    /\ base_rows[2 * ChunkSize + 1].video_id = 2 * ChunkSize + 1

\* if cfg.skip_existing and existing_urls: rows are compared with the sheet.
SkipActive == cfg.skip_existing /\ existing_urls # {}

Urls(rows) == [i \in 1 .. Len(rows) |-> rows[i].video_url]

\* The loop over base_rows is over.
Filtered == pc \in {"csv", "sheets", "done"}

\* C14: with skip_existing set and URLs read from the worksheet, no record
\* of final_rows, of the CSV file or of the rows appended has a video_url
\* among those URLs; the records kept are the others of base_rows, in the
\* order of base_rows; no record kept has the key video_id; and no caption
\* listing, the first call of a transcript fetch, is asked for a video whose
\* record is skipped.
C14_ExistingRowsSkipped ==
    /\ SkipActive =>
          /\ \A i \in 1 .. Len(final_rows) : final_rows[i].video_url \notin existing_urls
          /\ \A i \in 1 .. Len(csv.rows) : csv.rows[i].video_url \notin existing_urls
          /\ \A i \in 1 .. Len(sheet.rows) : sheet.rows[i].video_url \notin existing_urls
          /\ \A i \in 1 .. Len(calls) :
                calls[i].api = "captions.list" =>
                    WatchUrl(calls[i].n) \notin existing_urls
    /\ Filtered =>
          Urls(final_rows)
              = SelectSeq(Urls(base_rows),
                          LAMBDA u : ~(SkipActive /\ u \in existing_urls))
    /\ csv.written => csv.rows = [i \in 1 .. Len(final_rows) |-> CsvRow(final_rows[i])]
    /\ sheet.written => sheet.rows = final_rows
    /\ \A i \in 1 .. Len(final_rows) : "video_id" \notin final_rows[i].keys

\* Two videos, the first of them already on the worksheet: the second alone
\* is kept, with its transcript fetched, written and appended.
C14_Witness ==
    /\ pc = "done"
    /\ cfg.skip_existing /\ cfg.oauth
    /\ Len(base_rows) = 2
    /\ existing_urls = {base_rows[1].video_url}
    /\ Urls(final_rows) = <<base_rows[2].video_url>>
    /\ Len(CallsTo("captions.list")) = 1
    /\ final_rows[1].transcript # <<>>
    /\ csv.written /\ Len(csv.rows) = 1
    /\ sheet.written /\ Len(sheet.rows) = 1

\* The last page request was answered, and its page carried no token.
LastPageWithoutToken ==
    /\ PageLog # <<>>
    /\ PageLog[Len(PageLog)].ended = "ok"
    /\ page_token = 0

\* C15: for max_videos > 0, against an upstream whose playlist ends,
\* list_upload_video_ids ends (it returns or raises); it returns only with
\* max_videos ids or after a page without a token, for the loop has no bound
\* of its own: while pages come with a token and too few ids, empty ones
\* too, another request follows.
C15_EndsOnlyWithUpstream ==
    /\ [](ListReturned => (Len(video_ids) = cfg.max_videos \/ LastPageWithoutToken))
    /\ [](pc = "list" => ENABLED NextPaging)
    /\ <>(pc # "list")

\* Every page so far came empty and with a token: the function is about to
\* ask for the upstream's last page.
C15_Witness ==
    /\ pc = "list"
    /\ Len(PageLog) = MaxPages - 1
    /\ \A i \in 1 .. Len(PageLog) : PageLog[i].ended = "ok" /\ PageLog[i].got = 0
    /\ video_ids = <<>>
    /\ page_token = MaxPages - 1

\* The errors append_to_sheet raises.
SheetErrors == {SheetNotFoundError, MetadataDenied, WriteDenied}

SheetStepApis == {"spreadsheets.get", "values.append"}

\* C16: with out_csv set, the CSV file is written, with every row of
\* final_rows, before the worksheet is looked up or appended to; so when the
\* sheet step ends run_export with SheetNotFoundError or
\* PermissionDeniedError the file is there, complete, and no row was appended.
C16_CsvWrittenBeforeSheetStep ==
    /\ \A i \in 1 .. Len(calls) :
          (calls[i].api \in SheetStepApis /\ cfg.out_csv) =>
              /\ csv.written
              /\ csv.rows = [k \in 1 .. Len(final_rows) |-> CsvRow(final_rows[k])]
    /\ (pc = "raised" /\ exc \in SheetErrors) =>
          /\ cfg.sheets
          /\ calls[Len(calls)].api \in SheetStepApis
          /\ calls[Len(calls)].ended # "ok" \/ exc = SheetNotFoundError
          /\ ~sheet.written
          /\ cfg.out_csv => csv.written /\ Len(csv.rows) = Len(final_rows)

\* Both outputs asked for, two records, the append refused: the run ended with
\* PermissionDeniedError and the CSV file holds both records.
C16_Witness ==
    /\ pc = "raised"
    /\ exc = WriteDenied
    /\ cfg.out_csv /\ cfg.sheets
    /\ Len(final_rows) = 2
    /\ csv.written
    /\ csv.rows = [k \in 1 .. 2 |-> CsvRow(final_rows[k])]
    /\ ~sheet.written

====
